---- MODULE Spec2Model ----
(***************************************************************************)
(* go-url-checker: the concurrent check engine (internal/checker).         *)
(*                                                                         *)
(* Check starts cfg.Concurrency workers, a dispatcher goroutine that feeds *)
(* the buffered jobs channel, a watcher goroutine that closes the results  *)
(* channel once the WaitGroup drains, and then aggregates the results.     *)
(* The worker pool, dispatcher, watcher, aggregator and the single HTTP    *)
(* attempt are modelled from internal/checker/checker.go.  The Config      *)
(* variant of Check that cmd/url-checker/root.go calls (retries, rate      *)
(* limit) is not among the sources: the retry/backoff loop and the rate    *)
(* limiter are modelled from sections 4.2-4.4 of the specification.        *)
(*                                                                         *)
(* Spec is the run with the clock left out, FairSpec the same under fair   *)
(* scheduling, TimedSpec the rate-limited run on a 500 ms clock, and       *)
(* UncancelledSpec the runs in which the cancellation signal never fires,  *)
(* the specification's example run among them.                             *)
(***************************************************************************)
EXTENDS Integers, Sequences, FiniteSets, TLC

\* ------------------------------------------------------------------ bounds

\* Longest input URL list.
MaxUrls == 2
\* Largest worker count (cfg.Concurrency ranges over 1..MaxWorkers).
MaxWorkers == 2
\* Largest retry budget (cfg.Retries ranges over 0..MaxRetries).
MaxRetries == 1
\* How many clock steps the timed runs follow.
MaxTicks == 3

\* ------------------------------------------------------------- environment

\* The mock endpoints of the specification's example, plus one whose
\* answer varies from attempt to attempt.
URLS == {"ok.test", "notfound.test", "serverfail.test", "flaky.test"}

NoErr == "nil"
TransportErr == "transport"
ContextErr == "context"

\* What one HTTP GET against an endpoint can yield while the context is
\* live: a response status, or no response (status 0 and an error).
Endpoint(url) ==
    CASE url = "ok.test"         -> {[StatusCode |-> 200, Err |-> NoErr]}
      [] url = "notfound.test"   -> {[StatusCode |-> 404, Err |-> NoErr]}
      [] url = "serverfail.test" -> {[StatusCode |-> 500, Err |-> NoErr]}
      [] OTHER                   -> {[StatusCode |-> 200, Err |-> NoErr],
                                     [StatusCode |-> 500, Err |-> NoErr],
                                     [StatusCode |-> 0, Err |-> TransportErr]}

Workers == 1..MaxWorkers

\* Rate limits tried: 0 (unlimited) and one request per second.
RateLimits == {0, 1}

OutputFormats == {"text", "json"}

\* ctx.Err(): "none" while the context is live.
CtxErrs == {"DeadlineExceeded", "Canceled"}

SeqsUpTo(S, n) == UNION {[1..k -> S] : k \in 1..n}

\* ------------------------------------------------------------------- state

VARIABLES
    urls,          \* the input URL list
    flags,         \* the command's settings: concurrency, retries, rateLimit
    cfg,           \* checker.Config: Concurrency, Retries, RateLimit
    outputFormat,  \* "text" or "json"
    ctxErr,        \* the shared cancellation signal: ctx.Err()
    mainPc,        \* Check's own position
    started,       \* workers spawned so far (the loop index i)
    dispPc,        \* the dispatcher goroutine's position
    next,          \* index of the next URL the dispatcher emits
    jobs,          \* the jobs channel's buffer (job = index into urls)
    jobsClosed,    \* close(jobs) has happened
    wpc,           \* each worker's position
    wjob,          \* the job a worker holds (0: none)
    wtries,        \* the retry loop's index for the job a worker holds
    wres,          \* the result of a worker's last attempt
    tokens,        \* the rate limiter's bucket (burst 1)
    wg,            \* the WaitGroup counter
    watcherPc,     \* the completion watcher's position
    results,       \* the results channel's buffer
    resultsClosed, \* close(results) has happened
    okCount,
    failCount,
    resultsList,   \* the results the aggregator has collected, in order
    printed,       \* the log messages printResult has written, in order
    summary,       \* the run summary (NoSummary until produced)
    takeCount,     \* history: how often each job was received by a worker
    admitted,      \* history: the job passed the limiter stage
    sent,          \* history: how many results were sent for each job
    attempts,      \* history: the HTTP attempts made for each job
    terminalAt,    \* history: the attempt (1, 2, ...) at which the job first
                   \* obtained a response with status < 500 (0: not yet)
    lastOutcome,   \* history: what the job's latest attempt obtained
    now,           \* the clock, in milliseconds since the run began
    tokenAt,       \* the time from which the limiter's bucket holds a token
    wakeAt,        \* the time at which each worker's backoff wait is over
    reqStarts      \* history: every HTTP request's start time and job, in
                   \* order

vars == <<urls, flags, cfg, outputFormat, ctxErr, mainPc, started, dispPc, next,
          jobs, jobsClosed, wpc, wjob, wtries, wres, tokens, wg, watcherPc,
          results, resultsClosed, okCount, failCount, resultsList, printed,
          summary,
          takeCount, admitted, sent, attempts, terminalAt, lastOutcome,
          now, tokenAt, wakeAt, reqStarts>>

NoResult == [URL |-> "", StatusCode |-> 0, Err |-> NoErr, Retries |-> 0, job |-> 0]
NoOutcome == [StatusCode |-> 0, Err |-> NoErr]
NoSummary == [total |-> -1, ok |-> -1, fail |-> -1, timeout |-> FALSE]

Cancelled == ctxErr # "none"

\* if concurrency < 1 { concurrency = 1 }
ClampConcurrency(concurrency) == IF concurrency < 1 THEN 1 ELSE concurrency

\* Mutation of RunConfig: the Retries field is left at its zero value.
RunConfigNoRetries(concurrency, retries, rateLimit) ==
    [Concurrency |-> concurrency, Retries |-> 0, RateLimit |-> rateLimit]

\* Mutation of RunConfig: the Retries field is filled from the wrong setting.
RunConfigWrongField(concurrency, retries, rateLimit) ==
    [Concurrency |-> concurrency, Retries |-> concurrency,
     RateLimit |-> rateLimit]

\* cfg := checker.Config{Concurrency: ..., Retries: ..., RateLimit: ...}
RunConfig(concurrency, retries, rateLimit) ==
    [Concurrency |-> concurrency, Retries |-> retries, RateLimit |-> rateLimit]

\* The state in which Check is entered, for given urls, flags and
\* outputFormat; pool is the set of worker slots.
Entered(pool) ==
    /\ cfg = RunConfig(ClampConcurrency(flags.concurrency), flags.retries,
                       flags.rateLimit)
    /\ ctxErr = "none"
    /\ mainPc = "workers"
    /\ started = 0
    /\ dispPc = "unstarted"
    /\ next = 1
    /\ jobs = <<>>
    /\ jobsClosed = FALSE
    /\ wpc = [w \in pool |-> "unstarted"]
    /\ wjob = [w \in pool |-> 0]
    /\ wtries = [w \in pool |-> 0]
    /\ wres = [w \in pool |-> NoResult]
    /\ tokens = 1
    /\ wg = 0
    /\ watcherPc = "unstarted"
    /\ results = <<>>
    /\ resultsClosed = FALSE
    /\ okCount = 0
    /\ failCount = 0
    /\ resultsList = <<>>
    /\ printed = <<>>
    /\ summary = NoSummary
    /\ takeCount = [i \in 1..Len(urls) |-> 0]
    /\ admitted = [i \in 1..Len(urls) |-> FALSE]
    /\ sent = [i \in 1..Len(urls) |-> 0]
    /\ attempts = [i \in 1..Len(urls) |-> 0]
    /\ terminalAt = [i \in 1..Len(urls) |-> 0]
    /\ lastOutcome = [i \in 1..Len(urls) |-> NoOutcome]
    /\ now = 0
    /\ tokenAt = 0
    /\ wakeAt = [w \in pool |-> 0]
    /\ reqStarts = <<>>

Init ==
    /\ urls \in SeqsUpTo(URLS, MaxUrls)
    /\ flags \in [concurrency : 0..MaxWorkers, retries : 0..MaxRetries,
                  rateLimit : RateLimits]
    /\ outputFormat \in OutputFormats
    /\ Entered(Workers)

\* ------------------------------------------------------------ cancellation

inputVars == <<urls, flags, cfg, outputFormat>>
aggVars == <<okCount, failCount, resultsList, printed, summary>>
dispVars == <<dispPc, next>>
workerVars == <<wpc, wjob, wtries, wres>>
histVars == <<takeCount, admitted, sent, attempts, terminalAt, lastOutcome>>
timeVars == <<now, tokenAt, wakeAt, reqStarts>>

\* The caller's context fires: the global deadline, or an explicit cancel.
\* Cancellation is monotonic: ctxErr never returns to "none".
Cancel ==
    /\ ctxErr = "none"
    /\ mainPc # "done"
    /\ ctxErr' \in CtxErrs
    /\ UNCHANGED <<inputVars, mainPc, started, dispVars, jobs, jobsClosed,
                   workerVars, tokens, wg, watcherPc, results, resultsClosed,
                   aggVars, histVars, timeVars>>

\* ------------------------------------------------------------------- Check

\* Mutation of StartWorker: the loop runs while i <= concurrency and spawns
\* one worker too many.
StartWorkerOneTooMany ==
    /\ mainPc = "workers"
    /\ started <= cfg.Concurrency
    /\ wg' = wg + 1
    /\ started' = started + 1
    /\ wpc' = [w \in Workers |-> IF w = started + 1 THEN "select" ELSE wpc[w]]
    /\ mainPc' = IF started = cfg.Concurrency THEN "dispatcher" ELSE "workers"
    /\ UNCHANGED <<inputVars, ctxErr, dispVars, jobs, jobsClosed, wjob, wtries,
                   wres, tokens, watcherPc, results, resultsClosed, aggVars,
                   histVars, timeVars>>

\* Mutation of StartWorker: wg.Add(1) is called once, ahead of the loop,
\* instead of once per worker.
StartWorkerAddOnce ==
    /\ mainPc = "workers"
    /\ started < cfg.Concurrency
    /\ wg' = IF started = 0 THEN wg + 1 ELSE wg
    /\ started' = started + 1
    /\ wpc' = [wpc EXCEPT ![started + 1] = "select"]
    /\ mainPc' = IF started + 1 = cfg.Concurrency THEN "dispatcher" ELSE "workers"
    /\ UNCHANGED <<inputVars, ctxErr, dispVars, jobs, jobsClosed, wjob, wtries,
                   wres, tokens, watcherPc, results, resultsClosed, aggVars,
                   histVars, timeVars>>

\* for i := 0; i < concurrency; i++ { wg.Add(1); go worker(...) }
StartWorker ==
    /\ mainPc = "workers"
    /\ started < cfg.Concurrency
    /\ wg' = wg + 1
    /\ started' = started + 1
    /\ wpc' = [wpc EXCEPT ![started + 1] = "select"]
    /\ mainPc' = IF started + 1 = cfg.Concurrency THEN "dispatcher" ELSE "workers"
    /\ UNCHANGED <<inputVars, ctxErr, dispVars, jobs, jobsClosed, wjob, wtries,
                   wres, tokens, watcherPc, results, resultsClosed, aggVars,
                   histVars, timeVars>>

\* go func() { for _, u := range urls { ... } close(jobs) }()
StartDispatcher ==
    /\ mainPc = "dispatcher"
    /\ dispPc' = "loop"
    /\ mainPc' = "watcher"
    /\ UNCHANGED <<inputVars, ctxErr, started, next, jobs, jobsClosed,
                   workerVars, tokens, wg, watcherPc, results, resultsClosed,
                   aggVars, histVars, timeVars>>

\* go func() { wg.Wait(); close(results) }()
StartWatcher ==
    /\ mainPc = "watcher"
    /\ watcherPc' = "wait"
    /\ mainPc' = "collect"
    /\ UNCHANGED <<inputVars, ctxErr, started, dispVars, jobs, jobsClosed,
                   workerVars, tokens, wg, results, resultsClosed, aggVars,
                   histVars, timeVars>>

\* -------------------------------------------------------------- dispatcher

\* Mutation of DispatchSend: a non-blocking send (select with a default
\* case) that drops the job when an earlier one is still waiting.
DispatchSendOrDrop ==
    /\ dispPc = "loop"
    /\ next <= Len(urls)
    /\ jobs' = IF jobs = <<>> THEN Append(jobs, next) ELSE jobs
    /\ next' = next + 1
    /\ UNCHANGED <<inputVars, ctxErr, mainPc, started, dispPc, jobsClosed,
                   workerVars, tokens, wg, watcherPc, results, resultsClosed,
                   aggVars, histVars, timeVars>>

\* Mutation of DispatchSend: a URL seen earlier in the list is skipped.
DispatchSendDedup ==
    /\ dispPc = "loop"
    /\ next <= Len(urls)
    /\ Len(jobs) < Len(urls)
    /\ jobs' = IF \E k \in 1..(next - 1) : urls[k] = urls[next]
               THEN jobs
               ELSE Append(jobs, next)
    /\ next' = next + 1
    /\ UNCHANGED <<inputVars, ctxErr, mainPc, started, dispPc, jobsClosed,
                   workerVars, tokens, wg, watcherPc, results, resultsClosed,
                   aggVars, histVars, timeVars>>

\* select { case jobs <- u: }: the buffer holds len(urls) entries.
DispatchSend ==
    /\ dispPc = "loop"
    /\ next <= Len(urls)
    /\ Len(jobs) < Len(urls)
    /\ jobs' = Append(jobs, next)
    /\ next' = next + 1
    /\ UNCHANGED <<inputVars, ctxErr, mainPc, started, dispPc, jobsClosed,
                   workerVars, tokens, wg, watcherPc, results, resultsClosed,
                   aggVars, histVars, timeVars>>

\* Mutation of DispatchCancelled: the return after close(jobs) is missing
\* and the loop goes on.
DispatchCancelledNoReturn ==
    /\ dispPc = "loop"
    /\ next <= Len(urls)
    /\ Cancelled
    /\ ~jobsClosed
    /\ jobsClosed' = TRUE
    /\ UNCHANGED <<inputVars, ctxErr, mainPc, started, dispVars, jobs,
                   workerVars, tokens, wg, watcherPc, results, resultsClosed,
                   aggVars, histVars, timeVars>>

\* Mutation of DispatchCancelled: the dispatcher returns on cancellation
\* without closing the queue.
DispatchCancelledNoClose ==
    /\ dispPc = "loop"
    /\ next <= Len(urls)
    /\ Cancelled
    /\ dispPc' = "done"
    /\ UNCHANGED <<inputVars, ctxErr, mainPc, started, next, jobs, jobsClosed,
                   workerVars, tokens, wg, watcherPc, results, resultsClosed,
                   aggVars, histVars, timeVars>>

\* select { case <-ctx.Done(): close(jobs); return }.  Go's select picks
\* among its ready cases at random, so this competes with DispatchSend.
DispatchCancelled ==
    /\ dispPc = "loop"
    /\ next <= Len(urls)
    /\ Cancelled
    /\ jobsClosed' = TRUE
    /\ dispPc' = "done"
    /\ UNCHANGED <<inputVars, ctxErr, mainPc, started, next, jobs, workerVars,
                   tokens, wg, watcherPc, results, resultsClosed, aggVars,
                   histVars, timeVars>>

\* Mutation of DispatchClose: the dispatcher returns after the last job
\* without closing the queue.
DispatchReturnNoClose ==
    /\ dispPc = "loop"
    /\ next > Len(urls)
    /\ dispPc' = "done"
    /\ UNCHANGED <<inputVars, ctxErr, mainPc, started, next, jobs, jobsClosed,
                   workerVars, tokens, wg, watcherPc, results, resultsClosed,
                   aggVars, histVars, timeVars>>

\* The range loop is over: close(jobs).
DispatchClose ==
    /\ dispPc = "loop"
    /\ next > Len(urls)
    /\ jobsClosed' = TRUE
    /\ dispPc' = "done"
    /\ UNCHANGED <<inputVars, ctxErr, mainPc, started, next, jobs, workerVars,
                   tokens, wg, watcherPc, results, resultsClosed, aggVars,
                   histVars, timeVars>>

\* ------------------------------------------------------------------ worker

\* Mutation of WorkerCancelled: the worker also polls ctx.Done() between
\* its check and its send, and returns with the job's result unsent.
WorkerCancelledAnywhere(w) ==
    /\ wpc[w] \in {"select", "send"}
    /\ Cancelled
    /\ wpc' = [wpc EXCEPT ![w] = "done"]
    /\ wg' = wg - 1
    /\ UNCHANGED <<inputVars, ctxErr, mainPc, started, dispVars, jobs,
                   jobsClosed, wjob, wtries, wres, tokens, watcherPc, results,
                   resultsClosed, aggVars, histVars, timeVars>>

\* case <-ctx.Done(): return (with the deferred wg.Done()).  Competes with
\* the receive below whenever both are ready.
WorkerCancelled(w) ==
    /\ wpc[w] = "select"
    /\ Cancelled
    /\ wpc' = [wpc EXCEPT ![w] = "done"]
    /\ wg' = wg - 1
    /\ UNCHANGED <<inputVars, ctxErr, mainPc, started, dispVars, jobs,
                   jobsClosed, wjob, wtries, wres, tokens, watcherPc, results,
                   resultsClosed, aggVars, histVars, timeVars>>

\* Mutation of WorkerTake: the job is read but stays at the head of the
\* queue.
WorkerTakeNoDequeue(w) ==
    /\ wpc[w] = "select"
    /\ jobs # <<>>
    /\ wjob' = [wjob EXCEPT ![w] = Head(jobs)]
    /\ wtries' = [wtries EXCEPT ![w] = 0]
    /\ wres' = [wres EXCEPT ![w] = NoResult]
    /\ takeCount' = [takeCount EXCEPT ![Head(jobs)] = @ + 1]
    /\ IF cfg.RateLimit > 0
       THEN /\ wpc' = [wpc EXCEPT ![w] = "limiter"]
            /\ UNCHANGED admitted
       ELSE /\ wpc' = [wpc EXCEPT ![w] = "attempt"]
            /\ admitted' = [admitted EXCEPT ![Head(jobs)] = TRUE]
    /\ UNCHANGED <<inputVars, ctxErr, mainPc, started, dispVars, jobs,
                   jobsClosed, tokens, wg, watcherPc, results, resultsClosed,
                   aggVars, sent, attempts, terminalAt, lastOutcome, timeVars>>

\* case url, ok := <-jobs with ok: the head of the buffer is removed and
\* handed to this worker.  With a rate limiter the worker next waits for
\* admission; without one the job goes straight to its first attempt.
WorkerTake(w) ==
    /\ wpc[w] = "select"
    /\ jobs # <<>>
    /\ jobs' = Tail(jobs)
    /\ wjob' = [wjob EXCEPT ![w] = Head(jobs)]
    /\ wtries' = [wtries EXCEPT ![w] = 0]
    /\ wres' = [wres EXCEPT ![w] = NoResult]
    /\ takeCount' = [takeCount EXCEPT ![Head(jobs)] = @ + 1]
    /\ IF cfg.RateLimit > 0
       THEN /\ wpc' = [wpc EXCEPT ![w] = "limiter"]
            /\ UNCHANGED admitted
       ELSE /\ wpc' = [wpc EXCEPT ![w] = "attempt"]
            /\ admitted' = [admitted EXCEPT ![Head(jobs)] = TRUE]
    /\ UNCHANGED <<inputVars, ctxErr, mainPc, started, dispVars, jobsClosed,
                   tokens, wg, watcherPc, results, resultsClosed, aggVars,
                   sent, attempts, terminalAt, lastOutcome, timeVars>>

\* case url, ok := <-jobs with !ok: the channel is closed and drained.
WorkerQueueClosed(w) ==
    /\ wpc[w] = "select"
    /\ jobs = <<>>
    /\ jobsClosed
    /\ wpc' = [wpc EXCEPT ![w] = "done"]
    /\ wg' = wg - 1
    /\ UNCHANGED <<inputVars, ctxErr, mainPc, started, dispVars, jobs,
                   jobsClosed, wjob, wtries, wres, tokens, watcherPc, results,
                   resultsClosed, aggVars, histVars, timeVars>>

\* ------------------------------------------------------------ rate limiter

\* LimiterAdmit, LimiterRefill, Attempt and BackoffElapsed say what the step
\* does to the run's state; when the clock lets them happen, and what they
\* do to the timers, is added under "timing" below.

\* Mutation of LimiterAdmit: a token that turns up is taken whether or not
\* the signal has fired.
LimiterAdmitIgnoresCancel(w) ==
    /\ wpc[w] = "limiter"
    /\ tokens > 0
    /\ tokens' = tokens - 1
    /\ wpc' = [wpc EXCEPT ![w] = "attempt"]
    /\ admitted' = [admitted EXCEPT ![wjob[w]] = TRUE]
    /\ UNCHANGED <<inputVars, ctxErr, mainPc, started, dispVars, jobs,
                   jobsClosed, wjob, wtries, wres, wg, watcherPc, results,
                   resultsClosed, aggVars, takeCount, sent, attempts, terminalAt, lastOutcome>>

\* Acquire succeeds: the bucket's token is taken.  Acquire blocks until the
\* limiter admits the request or the signal fires, and with the signal
\* fired it reports cancellation (LimiterCancelled).
LimiterAdmit(w) ==
    /\ wpc[w] = "limiter"
    /\ ~Cancelled
    /\ tokens > 0
    /\ tokens' = tokens - 1
    /\ wpc' = [wpc EXCEPT ![w] = "attempt"]
    /\ admitted' = [admitted EXCEPT ![wjob[w]] = TRUE]
    /\ UNCHANGED <<inputVars, ctxErr, mainPc, started, dispVars, jobs,
                   jobsClosed, wjob, wtries, wres, wg, watcherPc, results,
                   resultsClosed, aggVars, takeCount, sent, attempts, terminalAt, lastOutcome>>

\* Acquire reports cancellation: the job is abandoned and the worker exits
\* without emitting a result for it.
LimiterCancelled(w) ==
    /\ wpc[w] = "limiter"
    /\ Cancelled
    /\ wpc' = [wpc EXCEPT ![w] = "done"]
    /\ wjob' = [wjob EXCEPT ![w] = 0]
    /\ wg' = wg - 1
    /\ UNCHANGED <<inputVars, ctxErr, mainPc, started, dispVars, jobs,
                   jobsClosed, wtries, wres, tokens, watcherPc, results,
                   resultsClosed, aggVars, histVars, timeVars>>

\* The bucket refills (burst 1) at the configured rate.  The refill is
\* accounted for when a worker is waiting on the limiter, which is when the
\* bucket's content is next looked at.
LimiterRefill ==
    /\ cfg.RateLimit > 0
    /\ tokens = 0
    /\ \E w \in Workers : wpc[w] = "limiter"
    /\ tokens' = 1
    /\ UNCHANGED <<inputVars, ctxErr, mainPc, started, dispVars, jobs,
                   jobsClosed, workerVars, wg, watcherPc, results,
                   resultsClosed, aggVars, histVars>>

\* ------------------------------------------------- single check and retry

\* client.Do(req) for a request built with the run's context: a context
\* that is already done yields no response and the context's error;
\* otherwise the endpoint decides.
clientDo(ctx, url) ==
    IF ctx # "none"
    THEN {[StatusCode |-> 0, Err |-> ContextErr]}
    ELSE Endpoint(url)

\* Mutation of checkURL: a response with status >= 400 is reported as an
\* error.
checkURLErrorOn4xx(url, o) ==
    IF o.Err # NoErr
    THEN [URL |-> url, StatusCode |-> 0, Err |-> o.Err]
    ELSE IF o.StatusCode >= 400
         THEN [URL |-> url, StatusCode |-> o.StatusCode, Err |-> TransportErr]
         ELSE [URL |-> url, StatusCode |-> o.StatusCode, Err |-> NoErr]

\* Mutation of checkURL: the error path builds its Result without the URL.
checkURLNoUrlOnError(url, o) ==
    IF o.Err # NoErr
    THEN [URL |-> "", StatusCode |-> 0, Err |-> o.Err]
    ELSE [URL |-> url, StatusCode |-> o.StatusCode, Err |-> NoErr]

\* checkURL: the Result built from what client.Do returned.  With an error
\* the StatusCode field keeps its zero value; with a response Err is nil.
\* The Result echoes the URL.
checkURL(url, o) ==
    IF o.Err # NoErr
    THEN [URL |-> url, StatusCode |-> 0, Err |-> o.Err]
    ELSE [URL |-> url, StatusCode |-> o.StatusCode, Err |-> NoErr]

\* An attempt is terminal when it obtained a response with status < 500.
IsTerminal(r) == r.Err = NoErr /\ r.StatusCode < 500

\* Another attempt follows a retryable outcome while budget remains:
\* attempts 1..(maxRetries+1).
ShouldRetry(r, tries) == ~IsTerminal(r) /\ tries < cfg.Retries

\* One attempt of the job the worker holds, then the retry decision: the
\* result records the retries performed so far; either it is final, or the
\* worker starts the backoff wait before the next attempt.
Attempt(w) ==
    /\ wpc[w] = "attempt"
    /\ \E o \in clientDo(ctxErr, urls[wjob[w]]) :
          LET r == checkURL(urls[wjob[w]], o) IN
          /\ wres' = [wres EXCEPT ![w] =
                         [URL |-> r.URL, StatusCode |-> r.StatusCode,
                          Err |-> r.Err, Retries |-> wtries[w],
                          job |-> wjob[w]]]
          /\ attempts' = [attempts EXCEPT ![wjob[w]] = @ + 1]
          /\ terminalAt' = [terminalAt EXCEPT ![wjob[w]] =
                               IF @ = 0 /\ o.Err = NoErr /\ o.StatusCode < 500
                               THEN attempts[wjob[w]] + 1 ELSE @]
          /\ lastOutcome' = [lastOutcome EXCEPT ![wjob[w]] = o]
          /\ IF ShouldRetry(r, wtries[w])
             THEN /\ wpc' = [wpc EXCEPT ![w] = "backoff"]
                  /\ wtries' = [wtries EXCEPT ![w] = @ + 1]
             ELSE /\ wpc' = [wpc EXCEPT ![w] = "send"]
                  /\ UNCHANGED wtries
    /\ UNCHANGED <<inputVars, ctxErr, mainPc, started, dispVars, jobs,
                   jobsClosed, wjob, tokens, wg, watcherPc, results,
                   resultsClosed, aggVars, takeCount, admitted, sent>>

\* Mutation of BackoffElapsed: the wait is not raced against the signal.
BackoffElapsedUncancellable(w) ==
    /\ wpc[w] = "backoff"
    /\ wpc' = [wpc EXCEPT ![w] = "attempt"]
    /\ UNCHANGED <<inputVars, ctxErr, mainPc, started, dispVars, jobs,
                   jobsClosed, wjob, wtries, wres, tokens, wg, watcherPc,
                   results, resultsClosed, aggVars, histVars>>

\* The backoff delay elapses with the context still live.
BackoffElapsed(w) ==
    /\ wpc[w] = "backoff"
    /\ ~Cancelled
    /\ wpc' = [wpc EXCEPT ![w] = "attempt"]
    /\ UNCHANGED <<inputVars, ctxErr, mainPc, started, dispVars, jobs,
                   jobsClosed, wjob, wtries, wres, tokens, wg, watcherPc,
                   results, resultsClosed, aggVars, histVars>>

\* The cancellation signal fires during the wait: abort at once with a
\* result whose error reflects cancellation; no further attempt.
BackoffCancelled(w) ==
    /\ wpc[w] = "backoff"
    /\ Cancelled
    /\ wres' = [wres EXCEPT ![w] =
                   [URL |-> urls[wjob[w]], StatusCode |-> 0, Err |-> ContextErr,
                    Retries |-> wtries[w] - 1, job |-> wjob[w]]]
    /\ wpc' = [wpc EXCEPT ![w] = "send"]
    /\ UNCHANGED <<inputVars, ctxErr, mainPc, started, dispVars, jobs,
                   jobsClosed, wjob, wtries, tokens, wg, watcherPc, results,
                   resultsClosed, aggVars, histVars, timeVars>>

\* Mutation of SendResult: a worker whose check ended in an error returns
\* instead of reporting it.
SendResultAbortOnError(w) ==
    /\ wpc[w] = "send"
    /\ Len(results) < Len(urls)
    /\ IF wres[w].Err # NoErr
       THEN /\ wpc' = [wpc EXCEPT ![w] = "done"]
            /\ wg' = wg - 1
            /\ UNCHANGED <<results, sent>>
       ELSE /\ results' = Append(results, wres[w])
            /\ sent' = [sent EXCEPT ![wjob[w]] = @ + 1]
            /\ wpc' = [wpc EXCEPT ![w] = "select"]
            /\ UNCHANGED wg
    /\ wjob' = [wjob EXCEPT ![w] = 0]
    /\ wres' = [wres EXCEPT ![w] = NoResult]
    /\ wtries' = [wtries EXCEPT ![w] = 0]
    /\ UNCHANGED <<inputVars, ctxErr, mainPc, started, dispVars, jobs,
                   jobsClosed, tokens, watcherPc, resultsClosed, aggVars,
                   takeCount, admitted, attempts, terminalAt, lastOutcome,
                   timeVars>>

\* Mutation of SendResult: the result channel is made with one slot per
\* worker instead of one per URL.
SendResultSmallBuffer(w) ==
    /\ wpc[w] = "send"
    /\ Len(results) < cfg.Concurrency
    /\ results' = Append(results, wres[w])
    /\ sent' = [sent EXCEPT ![wjob[w]] = @ + 1]
    /\ wpc' = [wpc EXCEPT ![w] = "select"]
    /\ wjob' = [wjob EXCEPT ![w] = 0]
    /\ wres' = [wres EXCEPT ![w] = NoResult]
    /\ wtries' = [wtries EXCEPT ![w] = 0]
    /\ UNCHANGED <<inputVars, ctxErr, mainPc, started, dispVars, jobs,
                   jobsClosed, tokens, wg, watcherPc, resultsClosed, aggVars,
                   takeCount, admitted, attempts, terminalAt, lastOutcome,
                   timeVars>>

\* results <- checkURL(...): the buffer holds len(urls) entries.
SendResult(w) ==
    /\ wpc[w] = "send"
    /\ Len(results) < Len(urls)
    /\ results' = Append(results, wres[w])
    /\ sent' = [sent EXCEPT ![wjob[w]] = @ + 1]
    /\ wpc' = [wpc EXCEPT ![w] = "select"]
    /\ wjob' = [wjob EXCEPT ![w] = 0]
    /\ wres' = [wres EXCEPT ![w] = NoResult]
    /\ wtries' = [wtries EXCEPT ![w] = 0]
    /\ UNCHANGED <<inputVars, ctxErr, mainPc, started, dispVars, jobs,
                   jobsClosed, tokens, wg, watcherPc, resultsClosed, aggVars,
                   takeCount, admitted, attempts, terminalAt, lastOutcome,
                   timeVars>>

\* ----------------------------------------------------------------- watcher

\* Mutation of WatcherClose: close(results) without waiting for the workers.
WatcherCloseEarly ==
    /\ watcherPc = "wait"
    /\ resultsClosed' = TRUE
    /\ watcherPc' = "done"
    /\ UNCHANGED <<inputVars, ctxErr, mainPc, started, dispVars, jobs,
                   jobsClosed, workerVars, tokens, wg, results, aggVars,
                   histVars, timeVars>>

\* wg.Wait() returns once every worker has called wg.Done(); close(results).
WatcherClose ==
    /\ watcherPc = "wait"
    /\ wg = 0
    /\ resultsClosed' = TRUE
    /\ watcherPc' = "done"
    /\ UNCHANGED <<inputVars, ctxErr, mainPc, started, dispVars, jobs,
                   jobsClosed, workerVars, tokens, wg, results, aggVars,
                   histVars, timeVars>>

\* -------------------------------------------------------------- aggregator

\* Mutation of IsFailure: only an error counts as a failure (the test
\* printResult applies).
IsFailureErrOnly(res) == res.Err # NoErr

\* res.Err != nil || res.StatusCode < 200 || res.StatusCode >= 300
IsFailure(res) ==
    res.Err # NoErr \/ res.StatusCode < 200 \/ res.StatusCode >= 300

\* printResult: the message logged for one result, "Check failed" when
\* r.Err != nil and "Check success" otherwise.
printResult(r) == IF r.Err # NoErr THEN "Check failed" ELSE "Check success"

\* One iteration of "for res := range results": in text mode the result is
\* printed first, then counted and kept.
Collect ==
    /\ mainPc = "collect"
    /\ results # <<>>
    /\ results' = Tail(results)
    /\ printed' = IF outputFormat = "text"
                  THEN Append(printed, printResult(Head(results)))
                  ELSE printed
    /\ IF IsFailure(Head(results))
       THEN failCount' = failCount + 1 /\ UNCHANGED okCount
       ELSE okCount' = okCount + 1 /\ UNCHANGED failCount
    /\ resultsList' = Append(resultsList, Head(results))
    /\ UNCHANGED <<inputVars, ctxErr, mainPc, started, dispVars, jobs,
                   jobsClosed, workerVars, tokens, wg, watcherPc,
                   resultsClosed, summary, histVars, timeVars>>

\* The summary's total: printJSON reports len(results); the text summary
\* logs len(urls).
SummaryTotal == IF outputFormat = "json" THEN Len(resultsList) ELSE Len(urls)

\* Mutation of Finish: the summary is built with the two counts swapped.
FinishCountsSwapped ==
    /\ mainPc = "collect"
    /\ results = <<>>
    /\ resultsClosed
    /\ summary' = [total |-> SummaryTotal, ok |-> failCount, fail |-> okCount,
                   timeout |-> (ctxErr = "DeadlineExceeded")]
    /\ mainPc' = "done"
    /\ UNCHANGED <<inputVars, ctxErr, started, dispVars, jobs, jobsClosed,
                   workerVars, tokens, wg, watcherPc, results, resultsClosed,
                   okCount, failCount, resultsList, printed, histVars,
                   timeVars>>

\* The range loop ends when the channel is closed and drained; the timeout
\* is reported when ctx.Err() is DeadlineExceeded and the summary is built.
Finish ==
    /\ mainPc = "collect"
    /\ results = <<>>
    /\ resultsClosed
    /\ summary' = [total |-> SummaryTotal, ok |-> okCount, fail |-> failCount,
                   timeout |-> (ctxErr = "DeadlineExceeded")]
    /\ mainPc' = "done"
    /\ UNCHANGED <<inputVars, ctxErr, started, dispVars, jobs, jobsClosed,
                   workerVars, tokens, wg, watcherPc, results, resultsClosed,
                   okCount, failCount, resultsList, printed, histVars,
                   timeVars>>

\* ------------------------------------------------------------------ timing

\* The delay before the second attempt, in milliseconds.
BackoffBase == 500

\* The clock advances in steps of the base backoff delay.
TickMs == BackoffBase

\* The bucket (burst 1) refills at n tokens per second: a token taken at
\* time t is back at t + 1000/n.
RefillMs(n) == 1000 \div n

\* Mutation of BackoffDelay: the same delay before every retry.
BackoffDelayConstant(i) == BackoffBase

\* Attempt i > 1 is preceded by a delay of 500ms * 2^(i-2).
BackoffDelay(i) == BackoffBase * 2^(i - 2)

\* Time passes.  A worker that is about to start a request starts it before
\* the clock moves: the step from the limiter's admission, or from the end
\* of a backoff wait, to the request's start takes no time.
Tick ==
    /\ mainPc # "done"
    /\ \A w \in Workers : wpc[w] # "attempt"
    /\ now + TickMs <= MaxTicks * TickMs
    /\ now' = now + TickMs
    /\ UNCHANGED <<inputVars, ctxErr, mainPc, started, dispVars, jobs,
                   jobsClosed, workerVars, tokens, wg, watcherPc, results,
                   resultsClosed, aggVars, histVars, tokenAt, wakeAt,
                   reqStarts>>

\* Acquire succeeds at time now; the bucket is empty until the refill.
TimedLimiterAdmit(w) ==
    /\ LimiterAdmit(w)
    /\ tokenAt' = now + RefillMs(cfg.RateLimit)
    /\ UNCHANGED <<now, wakeAt, reqStarts>>

\* The refill is due.
TimedLimiterRefill ==
    /\ LimiterRefill
    /\ now >= tokenAt
    /\ UNCHANGED timeVars

\* The HTTP request starts at time now; if another attempt is to follow,
\* its backoff delay runs from now on.
TimedAttempt(w) ==
    /\ Attempt(w)
    /\ reqStarts' = Append(reqStarts, [at |-> now, job |-> wjob[w]])
    /\ wakeAt' = IF wpc'[w] = "backoff"
                 THEN [wakeAt EXCEPT ![w] = now + BackoffDelay(wtries'[w] + 1)]
                 ELSE wakeAt
    /\ UNCHANGED <<now, tokenAt>>

\* The backoff delay has run out.
TimedBackoffElapsed(w) ==
    /\ BackoffElapsed(w)
    /\ now >= wakeAt[w]
    /\ UNCHANGED timeVars

\* ----------------------------------------------------------- specification

\* A worker's steps with the clock left out.
WorkerStep(w) ==
    \/ WorkerCancelled(w)
    \/ WorkerTake(w)
    \/ WorkerQueueClosed(w)
    \/ LimiterAdmit(w) /\ UNCHANGED timeVars
    \/ LimiterCancelled(w)
    \/ Attempt(w) /\ UNCHANGED timeVars
    \/ BackoffElapsed(w) /\ UNCHANGED timeVars
    \/ BackoffCancelled(w)
    \/ SendResult(w)

\* A worker's steps on the clock.
TimedWorkerStep(w) ==
    \/ WorkerCancelled(w)
    \/ WorkerTake(w)
    \/ WorkerQueueClosed(w)
    \/ TimedLimiterAdmit(w)
    \/ LimiterCancelled(w)
    \/ TimedAttempt(w)
    \/ TimedBackoffElapsed(w)
    \/ BackoffCancelled(w)
    \/ SendResult(w)

\* Every step but the environment's Cancel.
Progress ==
    \/ StartWorker
    \/ StartDispatcher
    \/ StartWatcher
    \/ DispatchSend
    \/ DispatchCancelled
    \/ DispatchClose
    \/ \E w \in Workers : WorkerStep(w)
    \/ LimiterRefill /\ UNCHANGED timeVars
    \/ WatcherClose
    \/ Collect
    \/ Finish

Next == Cancel \/ Progress

Spec == Init /\ [][Next]_vars

\* Fair scheduling of the goroutines; each network call and timer returns.
\* The cancellation signal is free to fire or not.  The output format only
\* selects what the summary reports, so the fair runs fix it.
FairInit == Init /\ outputFormat = "json"

FairSpec == FairInit /\ [][Next]_vars /\ WF_vars(Progress)

\* The run on the clock, with a rate limiter configured.  Time only bounds
\* steps from below (a refill or a backoff cannot come early); nothing
\* forces a step to happen by a given time.
TimedNext ==
    \/ Tick
    \/ Cancel
    \/ StartWorker
    \/ StartDispatcher
    \/ StartWatcher
    \/ DispatchSend
    \/ DispatchCancelled
    \/ DispatchClose
    \/ \E w \in Workers : TimedWorkerStep(w)
    \/ TimedLimiterRefill
    \/ WatcherClose
    \/ Collect
    \/ Finish

\* The timed runs leave out what does not bear on timing: the output
\* format, the clamped concurrency 0 (the same run as 1) and the 404
\* endpoint (as the 200 one, terminal at the first attempt).
TimedInit ==
    /\ Init
    /\ flags.rateLimit > 0
    /\ flags.concurrency >= 1
    /\ outputFormat = "json"
    /\ \A i \in DOMAIN urls : urls[i] # "notfound.test"

TimedSpec == TimedInit /\ [][TimedNext]_vars

\* Timed runs with a retry budget of 2 over endpoints that can keep failing:
\* a job can reach its third attempt, with two backoff waits before it.
BackoffInit ==
    /\ urls \in SeqsUpTo({"serverfail.test", "flaky.test"}, MaxUrls)
    /\ flags \in [concurrency : 1..MaxWorkers, retries : {2},
                  rateLimit : RateLimits \ {0}]
    /\ outputFormat = "json"
    /\ Entered(Workers)

BackoffSpec == BackoffInit /\ [][TimedNext]_vars

\* The worker slots of the specification's example run (concurrency 3).
ExamplePool == 1..3

\* The runs in which the signal never fires: no Cancel, so none of the
\* steps that wait for it.  A run's workers are the slots of its pool.
UncancelledWorkerStep(w) ==
    \/ w \in DOMAIN wpc /\ WorkerTake(w)
    \/ w \in DOMAIN wpc /\ WorkerQueueClosed(w)
    \/ w \in DOMAIN wpc /\ LimiterAdmit(w) /\ UNCHANGED timeVars
    \/ w \in DOMAIN wpc /\ Attempt(w) /\ UNCHANGED timeVars
    \/ w \in DOMAIN wpc /\ BackoffElapsed(w) /\ UNCHANGED timeVars
    \/ w \in DOMAIN wpc /\ SendResult(w)

UncancelledNext ==
    \/ StartWorker
    \/ StartDispatcher
    \/ StartWatcher
    \/ DispatchSend
    \/ DispatchClose
    \/ \E w \in Workers \cup ExamplePool : UncancelledWorkerStep(w)
    \/ LimiterRefill /\ UNCHANGED timeVars
    \/ WatcherClose
    \/ Collect
    \/ Finish

\* The specification's example run: three endpoints answering 200, 404 and
\* always 500, concurrency 3, retries 1, no rate limit.
ExampleInit ==
    /\ urls = <<"ok.test", "notfound.test", "serverfail.test">>
    /\ flags = [concurrency |-> 3, retries |-> 1, rateLimit |-> 0]
    /\ outputFormat \in OutputFormats
    /\ Entered(ExamplePool)

UncancelledSpec == (Init \/ ExampleInit) /\ [][UncancelledNext]_vars

\* ------------------------------------------------------------------ claims

Jobs == 1..Len(urls)

\* f[1] + ... + f[n].
RECURSIVE SumTo(_, _)
SumTo(f, n) == IF n = 0 THEN 0 ELSE f[n] + SumTo(f, n - 1)

\* The workers that hold job i past the limiter stage.
Processing(i) ==
    {w \in Workers : wjob[w] = i /\ wpc[w] \in {"attempt", "backoff", "send"}}

\* The entries of a sequence of results that belong to job i.
RECURSIVE CountJob(_, _)
CountJob(rs, i) ==
    IF rs = <<>> THEN 0
    ELSE (IF Head(rs).job = i THEN 1 ELSE 0) + CountJob(Tail(rs), i)

\* C1: at every moment the results counted by the aggregator (okCount +
\* failCount) plus those still buffered in the result stream equal the
\* results the workers have sent, and a completed run has an empty stream:
\* at completion okCount + failCount is exactly the number of results sent.
C1_CountsEqualResultsSent ==
    /\ okCount + failCount + Len(results) = SumTo(sent, Len(urls))
    /\ okCount + failCount = Len(resultsList)
    /\ mainPc = "done" => results = <<>>

\* A cancelled run over two URLs completed with one success and one failure.
C1_Witness ==
    /\ mainPc = "done"
    /\ Cancelled
    /\ okCount = 1
    /\ failCount = 1

\* C2: a run that completes without the cancellation signal having fired
\* has collected exactly one result per input URL (per position of the
\* list, so duplicates count separately), whatever the outcomes were.
C2_NoCancelOneResultPerUrl ==
    (mainPc = "done" /\ ~Cancelled) =>
        /\ Len(resultsList) = Len(urls)
        /\ \A i \in Jobs : sent[i] = 1 /\ CountJob(resultsList, i) = 1

\* An uncancelled run over a duplicated URL completed with a transport
\* error for one copy and a 5xx answer for the other.
C2_Witness ==
    /\ mainPc = "done"
    /\ ~Cancelled
    /\ Len(urls) = 2
    /\ urls[1] = urls[2]
    /\ \E k \in DOMAIN resultsList : resultsList[k].Err = TransportErr
    /\ \E k \in DOMAIN resultsList : resultsList[k].StatusCode = 500

\* C3 as claimed: in a completed run every job a worker took from the
\* queue has yielded exactly one result.
C3_EveryTakenJobYieldsResult ==
    mainPc = "done" => \A i \in Jobs : takeCount[i] >= 1 => sent[i] = 1

\* C3 amended: a job that passed the limiter stage (at once when no limiter
\* is configured) is either still held by the one worker processing it or
\* has yielded exactly one result, also when the signal fired meanwhile; a
\* job whose limiter wait was cancelled yields none.
C3_AdmittedJobYieldsOneResult ==
    \A i \in Jobs :
        /\ sent[i] <= 1
        /\ admitted[i] =>
              \/ sent[i] = 0 /\ Cardinality(Processing(i)) = 1
              \/ sent[i] = 1 /\ Processing(i) = {}
        /\ ~admitted[i] => sent[i] = 0

\* The signal fired while a job was being processed, and the job's result
\* was sent all the same.
C3_Witness ==
    \E i \in Jobs :
        /\ Cancelled
        /\ sent[i] = 1
        /\ \E k \in DOMAIN resultsList :
              resultsList[k].job = i /\ resultsList[k].Err = ContextErr

\* C4: no job is received from the queue twice, no two workers hold the
\* same job, and no job yields two results.
C4_JobConsumedOnce ==
    /\ \A i \in Jobs : takeCount[i] <= 1 /\ sent[i] <= 1
    /\ \A i \in Jobs : Cardinality({w \in Workers : wjob[w] = i}) <= 1
    /\ \A i \in Jobs :
          Cardinality({k \in DOMAIN jobs : jobs[k] = i}) + takeCount[i] <= 1

\* Two workers hold two different jobs at the same time.
C4_Witness ==
    /\ wjob[1] # 0
    /\ wjob[2] # 0
    /\ wpc[1] = "attempt"
    /\ wpc[2] = "attempt"

\* C5: under fair scheduling every run reaches the state where the result
\* stream is closed, the summary is produced and every started worker, the
\* dispatcher and the watcher have returned.
C5_RunTerminates ==
    <>(/\ mainPc = "done"
       /\ resultsClosed
       /\ summary # NoSummary
       /\ watcherPc = "done"
       /\ dispPc = "done"
       /\ \A w \in Workers : wpc[w] \in {"unstarted", "done"})

\* A run completed after the signal fired with a job still in the queue.
C5_Witness ==
    /\ mainPc = "done"
    /\ Cancelled
    /\ summary # NoSummary
    /\ jobs # <<>>

\* A result is a failure when it carries an error or its status code lies
\* outside [200,300).
Failure(r) == r.Err # NoErr \/ r.StatusCode \notin 200..299

RECURSIVE CountFailures(_)
CountFailures(rs) ==
    IF rs = <<>> THEN 0
    ELSE (IF Failure(Head(rs)) THEN 1 ELSE 0) + CountFailures(Tail(rs))

\* C6: the aggregator's failCount is the number of collected results that
\* carry an error or a status outside [200,300), and okCount is the number
\* of all the others.
C6_FailureIffErrorOrNon2xx ==
    /\ failCount = CountFailures(resultsList)
    /\ okCount = Len(resultsList) - CountFailures(resultsList)

\* A 404 without error was counted as the one failure, a 200 as the one
\* success.
C6_Witness ==
    /\ okCount = 1
    /\ failCount = 1
    /\ \E k \in DOMAIN resultsList :
          resultsList[k].StatusCode = 404 /\ resultsList[k].Err = NoErr
    /\ \E k \in DOMAIN resultsList :
          resultsList[k].StatusCode = 200 /\ resultsList[k].Err = NoErr

\* The results that exist: held by a worker about to send, buffered in the
\* result stream, or collected.
Produced ==
    {wres[w] : w \in {v \in Workers : wpc[v] = "send"}}
        \cup {results[k] : k \in DOMAIN results}
        \cup {resultsList[k] : k \in DOMAIN resultsList}

\* C7: once an attempt of a job has obtained a response with status < 500
\* no further attempt is made for the job, and the job's result is that
\* response with retries = the number of attempts made before it.
C7_ResponseBelow500IsTerminal ==
    /\ \A i \in Jobs : terminalAt[i] # 0 => attempts[i] = terminalAt[i]
    /\ \A r \in Produced :
          terminalAt[r.job] # 0 =>
              /\ r.Retries = terminalAt[r.job] - 1
              /\ r.Err = NoErr
              /\ r.StatusCode = lastOutcome[r.job].StatusCode
              /\ r.StatusCode < 500

\* With retry budget available, a first-attempt 404 became the result, with
\* retries = 0 and one attempt made.
C7_Witness ==
    \E k \in DOMAIN resultsList :
        /\ flags.retries > 0
        /\ resultsList[k].StatusCode = 404
        /\ resultsList[k].Retries = 0
        /\ attempts[resultsList[k].job] = 1

\* C8: while the signal has not fired, a result of a job none of whose
\* attempts obtained a response below 500 comes after exactly maxRetries+1
\* attempts, is the outcome of the last of them, records retries =
\* maxRetries and is a failure.
C8_RetryableExhaustsBudget ==
    \A r \in Produced :
        (terminalAt[r.job] = 0 /\ ~Cancelled) =>
            /\ attempts[r.job] = flags.retries + 1
            /\ r.Retries = flags.retries
            /\ r.StatusCode = lastOutcome[r.job].StatusCode
            /\ r.Err = lastOutcome[r.job].Err
            /\ r.Err # NoErr \/ r.StatusCode >= 500
            /\ Failure(r)

\* An endpoint that always answers 500 was tried maxRetries+1 > 1 times and
\* its result was counted as a failure.
C8_Witness ==
    \E k \in DOMAIN resultsList :
        /\ ~Cancelled
        /\ flags.retries > 0
        /\ urls[resultsList[k].job] = "serverfail.test"
        /\ resultsList[k].StatusCode = 500
        /\ resultsList[k].Retries = flags.retries
        /\ attempts[resultsList[k].job] = flags.retries + 1
        /\ failCount >= 1

\* C9: no job gets more than maxRetries+1 attempts, and every result
\* records retries = attempts made for its job - 1, a value in 0..maxRetries.
C9_AttemptsBounded ==
    /\ \A i \in Jobs : attempts[i] <= flags.retries + 1
    /\ \A r \in Produced :
          /\ r.Retries = attempts[r.job] - 1
          /\ r.Retries \in 0..flags.retries

\* A flaky endpoint answered on the second attempt: two attempts, retries 1.
C9_Witness ==
    \E k \in DOMAIN resultsList :
        /\ resultsList[k].StatusCode = 200
        /\ resultsList[k].Retries = 1
        /\ attempts[resultsList[k].job] = 2

\* C10: when a worker is in a backoff wait and the signal has fired, the
\* worker's next step ends the wait without an attempt for the job and
\* leaves it with a result whose error is the context's; that result is what
\* the worker then sends.
C10_CancelAbortsBackoff ==
    [][\A w \in Workers :
          /\ (wpc[w] = "backoff" /\ Cancelled /\ wpc'[w] # "backoff") =>
                /\ wpc'[w] = "send"
                /\ wres'[w].Err = ContextErr
                /\ wres'[w].job = wjob[w]
          /\ (wpc[w] = "backoff" /\ Cancelled) =>
                attempts'[wjob[w]] = attempts[wjob[w]]
          /\ (wpc[w] = "send" /\ wpc'[w] # "send") =>
                results' = Append(results, wres[w])]_vars

\* A wait that began with the context live was aborted by the signal: the
\* worker holds a cancellation result with one attempt made and one retry of
\* budget unused.
C10_Witness ==
    \E w \in Workers :
        /\ wpc[w] = "send"
        /\ wres[w].Err = ContextErr
        /\ wtries[w] = 1
        /\ wres[w].Retries = 0
        /\ lastOutcome[wjob[w]].StatusCode = 500

\* The instants of the clock.
Instants == {k * TickMs : k \in 0..MaxTicks}

\* The HTTP requests started in the window [t1, t2].
StartsIn(t1, t2) ==
    Cardinality({k \in DOMAIN reqStarts :
                    reqStarts[k].at >= t1 /\ reqStarts[k].at <= t2})

\* C11 as claimed: with a rate limit of N requests per second and burst 1,
\* the HTTP requests started within any window of W seconds number at most
\* N*W + 1 (times in milliseconds: starts * 1000 <= N * W_ms + 1000).
C11_RequestStartsWithinRate ==
    \A t1, t2 \in Instants :
        t1 <= t2 =>
            StartsIn(t1, t2) * 1000 <= cfg.RateLimit * (t2 - t1) + 1000

\* C12 as claimed: in a completed run that the signal truncated, the
\* summary's total is the number of results produced (ok + fail), whatever
\* the output mode.
C12_TotalIsResultsProduced ==
    (mainPc = "done" /\ Cancelled) =>
        /\ summary.total = summary.ok + summary.fail
        /\ summary.total = Len(resultsList)

\* C13 as claimed: a completed run has surfaced the run-level cancellation
\* condition exactly when the signal had fired, by the deadline or by an
\* explicit cancel, by the time the aggregator saw the result stream closed.
C13_CancellationSurfaced ==
    mainPc = "done" => (summary.timeout <=> Cancelled)

\* The jobs in process: taken from the queue, result not yet emitted.
InProcess == {i \in Jobs : takeCount[i] >= 1 /\ sent[i] = 0}

\* C14: the workers started are never more than concurrency and exactly
\* concurrency from the moment the dispatcher exists (so before any job is
\* emitted) to the end of the run, and at no time are more than concurrency
\* jobs in process or held by workers.
C14_ExactlyConcurrencyWorkers ==
    /\ started <= cfg.Concurrency
    /\ Cardinality({w \in Workers : wpc[w] # "unstarted"}) = started
    /\ (dispPc # "unstarted" \/ next > 1 \/ mainPc = "done") =>
          started = cfg.Concurrency
    /\ Cardinality(InProcess) <= cfg.Concurrency
    /\ Cardinality({w \in Workers : wjob[w] # 0}) <= cfg.Concurrency

\* With the concurrency setting 0 clamped to 1, the only worker holds one
\* job while the other waits in the queue and the second worker never
\* started.
C14_Witness ==
    /\ flags.concurrency = 0
    /\ started = 1
    /\ wpc[2] = "unstarted"
    /\ wjob[1] # 0
    /\ jobs # <<>>

\* The endpoints whose answer is fixed.
FixedURLS == {u \in URLS : Cardinality(Endpoint(u)) = 1}

\* The reference run: one URL checked on its own, attempt after attempt,
\* from the attempt that follows i retries.
RECURSIVE SeqCheck(_, _)
SeqCheck(url, i) ==
    LET r == checkURL(url, CHOOSE o \in Endpoint(url) : TRUE) IN
    IF ShouldRetry(r, i) THEN SeqCheck(url, i + 1)
    ELSE [URL |-> r.URL, StatusCode |-> r.StatusCode, Err |-> r.Err,
          Retries |-> i]

\* The jobs the reference run classifies as failures.
SeqFailures == {i \in Jobs : Failure(SeqCheck(urls[i], 0))}

\* C15: while the signal has not fired, every result of a URL with a fixed
\* endpoint has the status, error, classification and retry count that the
\* reference run of that URL alone gives, whatever the workers' schedule;
\* and a completed run over fixed endpoints has the reference run's ok and
\* fail totals.  Any two such runs therefore agree with each other.
C15_OutcomeIndependentOfSchedule ==
    ~Cancelled =>
        /\ \A r \in Produced :
              urls[r.job] \in FixedURLS =>
                  LET q == SeqCheck(urls[r.job], 0) IN
                  /\ r.URL = q.URL
                  /\ r.StatusCode = q.StatusCode
                  /\ r.Err = q.Err
                  /\ r.Retries = q.Retries
                  /\ IsFailure(r) = Failure(q)
        /\ (mainPc = "done" /\ \A i \in Jobs : urls[i] \in FixedURLS) =>
              /\ failCount = Cardinality(SeqFailures)
              /\ okCount = Len(urls) - Cardinality(SeqFailures)

\* An uncancelled run over two fixed endpoints completed with the results
\* collected against input order, the second URL's after a retry.
C15_Witness ==
    /\ mainPc = "done"
    /\ ~Cancelled
    /\ urls = <<"ok.test", "serverfail.test">>
    /\ cfg.Concurrency = 2
    /\ resultsList[1].job = 2
    /\ resultsList[1].Retries = 1
    /\ resultsList[2].job = 1

\* The status a fixed endpoint answers with.
FixedStatus(url) == (CHOOSE o \in Endpoint(url) : TRUE).StatusCode

\* The input positions whose endpoint answers 2xx.
Answering2xx == {i \in Jobs : FixedStatus(urls[i]) \in 200..299}

\* C16: a run over fixed endpoints that completes without the signal
\* having fired reports ok = the number of input URLs answering 2xx, fail =
\* the number of the others and total = their sum, and the result of a URL
\* answering 500 has retries = maxRetries; in the example (200, 404, always
\* 500; concurrency 3, retries 1, no rate limit) the summary is total = 3,
\* ok = 1, fail = 2 and the 500 URL's result has retries = 1.
C16_SummaryFromFixedStatuses ==
    (mainPc = "done" /\ \A i \in Jobs : urls[i] \in FixedURLS) =>
        /\ summary.ok = Cardinality(Answering2xx)
        /\ summary.fail = Len(urls) - Cardinality(Answering2xx)
        /\ summary.total = summary.ok + summary.fail
        /\ \A i \in Jobs :
              FixedStatus(urls[i]) = 500 =>
                  \E k \in DOMAIN resultsList :
                      /\ resultsList[k].job = i
                      /\ resultsList[k].Retries = flags.retries
        /\ (/\ urls = <<"ok.test", "notfound.test", "serverfail.test">>
            /\ flags = [concurrency |-> 3, retries |-> 1, rateLimit |-> 0]) =>
                  /\ summary.total = 3
                  /\ summary.ok = 1
                  /\ summary.fail = 2
                  /\ \E k \in DOMAIN resultsList :
                        /\ resultsList[k].URL = "serverfail.test"
                        /\ resultsList[k].Retries = 1

\* The example run completed, its three workers having held the three jobs
\* at the same time: the 500 URL's result, after one retry, came last.
C16_Witness ==
    /\ mainPc = "done"
    /\ urls = <<"ok.test", "notfound.test", "serverfail.test">>
    /\ cfg = [Concurrency |-> 3, Retries |-> 1, RateLimit |-> 0]
    /\ summary.total = 3
    /\ resultsList[3].URL = "serverfail.test"
    /\ resultsList[3].Retries = 1
    /\ attempts = <<1, 1, 2>>

\* The job's final attempt obtained an HTTP response.
GotResponse(i) == attempts[i] >= 1 /\ lastOutcome[i].Err = NoErr

C18_NoEnqueueAfterCancel ==
    [][/\ Cancelled => (next' = next /\ Len(jobs') <= Len(jobs))
       /\ dispPc' = "done" => jobsClosed']_vars

\* C19 as claimed: once the signal has fired no job is taken from the
\* queue, and a worker that leaves the head of its loop with the signal
\* fired has exited, jobs waiting or not.
C19_NoTakeAfterCancel ==
    [][Cancelled =>
          /\ takeCount' = takeCount
          /\ \A w \in Workers :
                (wpc[w] = "select" /\ wpc'[w] # "select") => wpc'[w] = "done"]_vars

\* The jobs placed on the queue so far and no longer in it.
Consumed == next - 1 - Len(jobs)

\* C20: the jobs ever placed on the queue are the first next-1 positions of
\* the input, each once: the earliest ones have been taken, the queue holds
\* the rest in input order, and no later position has been handled; every
\* step that emits a job appends the next input position; and once the
\* queue is closed nothing more is emitted.
C20_EmittedInInputOrder ==
    /\ [](/\ next \in 1..(Len(urls) + 1)
          /\ Consumed >= 0
          /\ \A k \in DOMAIN jobs : jobs[k] = Consumed + k
          /\ \A i \in Jobs : takeCount[i] = (IF i <= Consumed THEN 1 ELSE 0))
    /\ [][/\ (next' # next \/ Len(jobs') > Len(jobs)) =>
                /\ jobs' = Append(jobs, next)
                /\ next' = next + 1
                /\ urls[next] = urls'[Consumed' + Len(jobs')]
          /\ jobsClosed => (jobsClosed' /\ next' = next)]_vars

\* Both URLs of the input were emitted and the queue closed; the first job
\* has been taken, the second waits.
C20_Witness ==
    /\ Len(urls) = 2
    /\ urls[1] # urls[2]
    /\ next = 3
    /\ jobsClosed
    /\ jobs = <<2>>
    /\ takeCount = <<1, 0>>

\* Every worker of the pool has been started and has returned.
AllWorkersExited ==
    /\ started = cfg.Concurrency
    /\ \A w \in Workers : wpc[w] \in {"unstarted", "done"}
    /\ \A w \in 1..started : wpc[w] = "done"

\* C21: the result stream is closed only with every worker exited, and the
\* aggregator finishes only then; the one step that closes it is the
\* watcher's, taken once, from an open stream; and no step sends a result
\* on a closed stream.
C21_ResultsClosedOnceAfterWorkers ==
    /\ []((resultsClosed \/ mainPc = "done") =>
              (AllWorkersExited /\ watcherPc = "done"))
    /\ [][/\ resultsClosed' # resultsClosed =>
                (~resultsClosed /\ watcherPc = "wait" /\ watcherPc' = "done")
          /\ watcherPc' # watcherPc =>
                (watcherPc' = "wait" \/ (~resultsClosed /\ resultsClosed'))
          /\ Len(results') > Len(results) => ~resultsClosed']_vars

\* The stream was closed, after both workers of the pool had exited, with
\* results still buffered for the aggregator.
C21_Witness ==
    /\ resultsClosed
    /\ cfg.Concurrency = 2
    /\ wpc = <<"done", "done">>
    /\ Len(results) = 2
    /\ mainPc = "collect"

\* The jobs whose limiter wait the signal ended: taken, never admitted, and
\* no longer held by a worker.
Abandoned ==
    {i \in Jobs : /\ takeCount[i] >= 1
                  /\ ~admitted[i]
                  /\ \A w \in Workers : wjob[w] # i}

\* C22: a worker that waits for the limiter with the signal fired does
\* nothing but exit, dropping the job it holds; and for a job dropped in
\* this way no HTTP attempt is ever made and no result ever exists.
C22_LimiterWaitCancelledAbandonsJob ==
    /\ [](\A i \in Abandoned :
              /\ Cancelled
              /\ attempts[i] = 0
              /\ sent[i] = 0
              /\ \A r \in Produced : r.job # i)
    /\ [][\A w \in Workers :
              (wpc[w] = "limiter" /\ Cancelled /\ wpc'[w] # "limiter") =>
                  /\ wpc'[w] = "done"
                  /\ wjob[w] \in Abandoned'
                  /\ wg' = wg - 1
                  /\ attempts' = attempts
                  /\ results' = results]_vars

\* A run completed in which the signal fired while a worker waited for the
\* limiter with the second job, the first having been checked: one result,
\* and for the second job no attempt and no result.
C22_Witness ==
    /\ mainPc = "done"
    /\ cfg.RateLimit > 0
    /\ Len(urls) = 2
    /\ Abandoned = {2}
    /\ attempts = <<1, 0>>
    /\ sent = <<1, 0>>
    /\ Len(resultsList) = 1

\* The start times of the HTTP requests made for job j, in order.
JobStarts(j) == SelectSeq(reqStarts, LAMBDA e : e.job = j)

\* 500ms before attempt 2, and double the previous delay before each later
\* attempt.
RECURSIVE Doubled(_)
Doubled(i) == IF i <= 2 THEN 500 ELSE 2 * Doubled(i - 1)

\* C23: the backoff wait before attempt i >= 2 of a job lasts
\* 500ms * 2^(i-2), that is 500ms before attempt 2 and double the previous
\* delay before each later attempt: the timer of a waiting worker is set to
\* that delay after the start of the attempt that failed, attempt i does
\* not start before the delay has run out, and the delay before attempt
\* i + 1 is twice the one before attempt i.  The first attempt of a job
\* waits for no timer: it is entered from the queue or the limiter, never
\* from a backoff wait.
C23_BackoffDelayDoubles ==
    /\ [](\A j \in Jobs :
              LET s == JobStarts(j) IN
              \A i \in 2..Len(s) :
                  /\ s[i].at - s[i - 1].at >= 500 * 2^(i - 2)
                  /\ 500 * 2^(i - 2) = Doubled(i))
    /\ [](\A w \in Workers :
              wpc[w] = "backoff" =>
                  LET s == JobStarts(wjob[w]) IN
                  /\ Len(s) = wtries[w]
                  /\ wakeAt[w] - s[Len(s)].at = 500 * 2^(Len(s) - 1))
    /\ [][\A w \in Workers :
              (wpc[w] # "attempt" /\ wpc'[w] = "attempt") =>
                  IF wpc[w] = "backoff"
                  THEN wtries[w] >= 1 /\ now >= wakeAt[w]
                  ELSE wtries'[w] = 0 /\ JobStarts(wjob'[w]) = <<>>]_vars

\* A job's three attempts started at 0ms, 500ms and 1500ms: waits of 500ms
\* and 1000ms, each as short as the timer allows.
C23_Witness ==
    \E j \in Jobs :
        LET s == JobStarts(j) IN
        /\ Len(s) = 3
        /\ s[1].at = 0
        /\ s[2].at - s[1].at = 500
        /\ s[3].at - s[2].at = 1000

\* How many of the printed messages are m.
RECURSIVE CountPrinted(_, _)
CountPrinted(seq, m) ==
    IF seq = <<>> THEN 0
    ELSE (IF Head(seq) = m THEN 1 ELSE 0) + CountPrinted(Tail(seq), m)

\* C24: in text mode every collected result has been printed, as a success
\* if and only if the aggregator counts it as ok: the number of results
\* printed as successes is the ok count and the number printed as failures
\* is the fail count.
C24_RenderedSuccessIffCountedOk ==
    outputFormat = "text" =>
        /\ Len(printed) = Len(resultsList)
        /\ \A k \in DOMAIN printed :
              printed[k] = "Check success" <=> ~IsFailure(resultsList[k])
        /\ CountPrinted(printed, "Check success") = okCount
        /\ CountPrinted(printed, "Check failed") = failCount

\* The results the workers have emitted so far, oldest first.
Emitted == resultsList \o results

\* How many entries of a sequence of URLs are u.
RECURSIVE CountUrl(_, _)
CountUrl(us, u) ==
    IF us = <<>> THEN 0
    ELSE (IF Head(us) = u THEN 1 ELSE 0) + CountUrl(Tail(us), u)

\* The URLs of a sequence of results.
UrlsOf(rs) == [k \in DOMAIN rs |-> rs[k].URL]

\* C25: the URLs of the results of a run are a sub-multiset of the input
\* list: every result echoes the URL of a job that was enqueued and taken,
\* a URL that occurs k times in the input has at most k results, no result
\* names a URL that is not in the input, and a run that completes with the
\* signal never fired has exactly k results for it.
C25_ResultUrlsSubMultisetOfInput ==
    /\ \A k \in DOMAIN Emitted :
          /\ Emitted[k].job \in 1..(next - 1)
          /\ takeCount[Emitted[k].job] >= 1
          /\ Emitted[k].URL = urls[Emitted[k].job]
          /\ \E i \in Jobs : urls[i] = Emitted[k].URL
    /\ \A u \in URLS : CountUrl(UrlsOf(Emitted), u) <= CountUrl(urls, u)
    /\ (mainPc = "done" /\ ~Cancelled) =>
          \A u \in URLS : CountUrl(UrlsOf(resultsList), u) = CountUrl(urls, u)

\* A completed run, never cancelled, over a list that names the same URL
\* twice: two results for that URL.
C25_Witness ==
    /\ mainPc = "done"
    /\ ~Cancelled
    /\ Len(urls) = 2
    /\ urls[1] = urls[2]
    /\ Len(resultsList) = 2
    /\ resultsList[1].URL = urls[1]
    /\ resultsList[2].URL = urls[1]
    /\ resultsList[1].job # resultsList[2].job

\* C26: results emitted <= jobs taken by workers <= jobs enqueued <= length
\* of the input list; so the result stream, which holds as many entries as
\* the input list, has a free slot whenever a worker is about to send: the
\* send can always proceed, whatever the aggregator has collected and
\* whether or not the signal has fired.
C26_ResultSendNeverBlocks ==
    /\ SumTo(sent, Len(urls)) <= SumTo(takeCount, Len(urls))
    /\ SumTo(takeCount, Len(urls)) <= next - 1
    /\ next - 1 <= Len(urls)
    /\ Len(results) <= SumTo(sent, Len(urls))
    /\ \A w \in Workers :
          wpc[w] = "send" =>
              /\ SumTo(sent, Len(urls)) < SumTo(takeCount, Len(urls))
              /\ Len(results) < Len(urls)
              /\ ENABLED SendResult(w)

\* The signal has fired, the aggregator has collected nothing, the stream
\* already holds one of the two results and a worker is about to send the
\* other.
C26_Witness ==
    /\ Cancelled
    /\ Len(urls) = 2
    /\ resultsList = <<>>
    /\ Len(results) = 1
    /\ \E w \in Workers : wpc[w] = "send"

\* C27: the job queue is closed exactly once on every path of the
\* dispatcher: the queue is closed if and only if the dispatcher has
\* returned; the dispatcher returns only in the step that closes the open
\* queue, from its loop, either with every URL emitted or with the signal
\* fired; and once the queue is closed it stays closed, the dispatcher
\* takes no further step and nothing is sent on the queue.
C27_JobsClosedExactlyOnce ==
    /\ [](jobsClosed <=> dispPc = "done")
    /\ [][/\ (jobsClosed' # jobsClosed \/ (dispPc' = "done" /\ dispPc # "done")) =>
                /\ ~jobsClosed
                /\ jobsClosed'
                /\ dispPc = "loop"
                /\ dispPc' = "done"
                /\ (next > Len(urls) \/ Cancelled)
                /\ jobs' = jobs
                /\ next' = next
          /\ jobsClosed =>
                /\ jobsClosed'
                /\ dispPc' = dispPc
                /\ next' = next
                /\ Len(jobs') <= Len(jobs)]_vars

\* The signal fired after the first of two URLs was emitted: the dispatcher
\* closed the queue and returned with the second URL never emitted.
C27_Witness ==
    /\ Cancelled
    /\ Len(urls) = 2
    /\ next = 2
    /\ jobsClosed
    /\ dispPc = "done"

====
